---- MODULE Spec2Model ----
(***************************************************************************)
(* The "Bricks" notebook (PuLP/BricksLinear.ipynb): a 0/1 integer program  *)
(* that places bricks in an XSIZE x YSIZE box, built cell by cell on one   *)
(* LpProblem m, solved by m.solve(), and printed by the display loop.      *)
(*                                                                         *)
(* A variable of the program is keyed <<x, y, b, rb>> as v[x][y][b][rb].   *)
(* A linear expression (PuLP's LpAffineExpression, a dict from variable to *)
(* coefficient) is a function from the keys it mentions to coefficients.   *)
(* An assignment is given by the set of keys whose value is 1.             *)
(***************************************************************************)
EXTENDS Integers, Sequences, FiniteSets, TLC

VARIABLES pc, XSIZE, YSIZE, bricks, pairs, positions, v, penalties, m,
          status, err, y, out

vars == <<pc, XSIZE, YSIZE, bricks, pairs, positions, v, penalties, m,
          status, err, y, out>>

(***************************************************************************)
(* Bounds of the instances explored.                                       *)
(***************************************************************************)
MaxXSIZE == 2
MaxCells == 4
MaxBricks == 3
MaxPairs == 3
MaxGarbage == 2

(***************************************************************************)
(* The notebook's data.                                                    *)
(***************************************************************************)
BRICKS == <<"a1", "a2", "a3", "b1", "b2", "c1", "c2", "c3", "c4", "d1", "d2", "e1">>

PAIRS == << <<"a1", "a2">>, <<"a1", "a3">>, <<"a2", "a3">>,
            <<"b1", "b2">>,
            <<"c1", "c2">>, <<"c1", "c3">>, <<"c2", "c3">>,
            <<"c1", "c4">>, <<"c2", "c4">>, <<"c3", "c4">>,
            <<"d1", "d2">> >>

\* varValue of an LpVariable that no solver has set
None == -1

TAB == "\t"

(***************************************************************************)
(* Helpers                                                                 *)
(***************************************************************************)
Range(s) == {s[i] : i \in DOMAIN s}

Prefix(s, n) == SubSeq(s, 1, n)

\* range(n)
PyRange(n) == 0 .. (n - 1)

\* how many times b is listed in bricks: a loop "for b in bricks" visits a
\* repeated identifier once per occurrence
Count(bs, b) == Cardinality({i \in DOMAIN bs : bs[i] = b})

RECURSIVE SumOver(_, _)
SumOver(S, e) ==
    IF S = {} THEN 0
    ELSE LET k == CHOOSE k \in S : TRUE
         IN  e[k] + SumOver(S \ {k}, e)

\* value of the linear expression e under the assignment whose ones are a
ExprValue(e, a) == SumOver(a \cap DOMAIN e, e)

\* the subsets of S with at most n elements
RECURSIVE SubsetsUpTo(_, _)
SubsetsUpTo(S, n) ==
    IF n = 0 \/ S = {} THEN {{}}
    ELSE LET k == CHOOSE k \in S : TRUE
             R == S \ {k}
         IN  SubsetsUpTo(R, n) \cup {T \cup {k} : T \in SubsetsUpTo(R, n - 1)}

\* positions = [(x,y) for x in range(XSIZE) for y in range(YSIZE)]
PositionsOf(X, Y) == [i \in 1 .. (X * Y) |-> <<(i - 1) \div Y, (i - 1) % Y>>]

\* the keys of LpVariable.dicts("bricks", (range(XSIZE), range(YSIZE), bricks, range(XSIZE)))
Keys(X, Y, bs) ==
    {<<x, yy, b, rb>> : x \in PyRange(X), yy \in PyRange(Y), b \in Range(bs), rb \in PyRange(X)}

(***************************************************************************)
(* The instances: a box, the first bricks of the notebook's list (with or  *)
(* without its last identifier listed twice) and the first pairs of its    *)
(* pair list.                                                              *)
(***************************************************************************)
BrickLists ==
    {Prefix(BRICKS, n) : n \in 1 .. MaxBricks}
    \cup {Append(Prefix(BRICKS, n), BRICKS[n]) : n \in 1 .. (MaxBricks - 1)}

PairLists == {Prefix(PAIRS, n) : n \in 0 .. MaxPairs}

\* cells 1-4: bricks, XSIZE, YSIZE, positions, the variables v and the empty
\* minimisation problem m
Built(X, Y, bs, ps) ==
    /\ XSIZE = X
    /\ YSIZE = Y
    /\ bricks = bs
    /\ pairs = ps
    /\ positions = PositionsOf(X, Y)
    /\ v = [k \in Keys(X, Y, bs) |-> None]
    /\ penalties = <<>>
    /\ m = [objective |-> <<>>, constraints |-> <<>>]
    /\ status = "Not Solved"
    /\ err = ""
    /\ y = 0
    /\ out = <<>>
    /\ pc = "penalties"

Init ==
    \E X \in 1 .. MaxXSIZE, Y \in 1 .. MaxCells, bs \in BrickLists, ps \in PairLists :
        /\ X * Y <= MaxCells
        /\ Built(X, Y, bs, ps)

(***************************************************************************)
(* Step 2: the penalty matrix and the objective                            *)
(***************************************************************************)
Abs(i) == IF i < 0 THEN 0 - i ELSE i

\* mutant of Penalty: the distance taken with its sign
PenaltySigned(x, rb) == 10 * (rb - x)

\* penalties[(x, rb)] = 10 * abs(rb - x)
Penalty(x, rb) == 10 * Abs(rb - x)

BuildPenalties ==
    /\ pc = "penalties"
    /\ penalties' = [p \in PyRange(XSIZE) \X PyRange(XSIZE) |-> Penalty(p[1], p[2])]
    /\ pc' = "objective"
    /\ UNCHANGED <<XSIZE, YSIZE, bricks, pairs, positions, v, m, status, err, y, out>>

\* lpSum([penalties[(x,rb)] * v[x][y][b][rb] for x,y in positions for b in bricks
\*        for rb in range(XSIZE)])
ObjectiveExpr ==
    [k \in DOMAIN v |-> penalties[<<k[1], k[4]>>] * Count(bricks, k[3])]

SetObjective ==
    /\ pc = "objective"
    /\ m' = [m EXCEPT !.objective = ObjectiveExpr]
    /\ pc' = "cond1"
    /\ UNCHANGED <<XSIZE, YSIZE, bricks, pairs, positions, v, penalties, status, err, y, out>>

(***************************************************************************)
(* Step 3: the four families of constraints, appended to m in loop order   *)
(***************************************************************************)
Constraint(name, e, sense, rhs) == [name |-> name, e |-> e, sense |-> sense, rhs |-> rhs]

\* mutant of OccupancyExpr: the sum leaves out the loop over rb
OccupancyExprNoAnchor(x, yy) ==
    [k \in {<<x, yy, b, 0>> : b \in Range(bricks)} |-> Count(bricks, k[3])]

\* lpSum([v[x][y][b][rb] for b in bricks for rb in range(XSIZE)])
OccupancyExpr(x, yy) ==
    [k \in {<<x, yy, b, rb>> : b \in Range(bricks), rb \in PyRange(XSIZE)}
        |-> Count(bricks, k[3])]

\* for x, y in positions: m += ... <= 1
Cond1 ==
    [i \in 1 .. Len(positions) |->
        Constraint("Occupancy", OccupancyExpr(positions[i][1], positions[i][2]), "<=", 1)]

\* lpSum([v[x][y][b][rb] for x, y in positions for rb in range(XSIZE)])
PlacementExpr(b) ==
    [k \in {<<p[1], p[2], b, rb>> : p \in Range(positions), rb \in PyRange(XSIZE)} |-> 1]

\* mutant of Cond2: "<= 1" for "== 1"
Cond2AtMost ==
    [i \in 1 .. Len(bricks) |-> Constraint("Placement", PlacementExpr(bricks[i]), "<=", 1)]

\* for b in bricks: m += ... == 1
Cond2 ==
    [i \in 1 .. Len(bricks) |-> Constraint("Placement", PlacementExpr(bricks[i]), "==", 1)]

\* lpSum([v[x][y][b][rb] for y in range(YSIZE) for b in bricks])
BoundaryExpr(x, rb) ==
    [k \in {<<x, yy, b, rb>> : yy \in PyRange(YSIZE), b \in Range(bricks)}
        |-> Count(bricks, k[3])]

\* mutants of RightOf: the comparison turned round, and ">=" for ">"
RightOfFlipped(x, rb) == x < rb

RightOfOrEqual(x, rb) == x >= rb

\* if x > rb
RightOf(x, rb) == x > rb

\* for x in range(XSIZE): for rb in range(XSIZE): if x > rb: m += ... == 0
Cond3 ==
    LET all == [i \in 1 .. (XSIZE * XSIZE) |-> <<(i - 1) \div XSIZE, (i - 1) % XSIZE>>]
        sel == SelectSeq(all, LAMBDA p : RightOf(p[1], p[2]))
    IN  [i \in 1 .. Len(sel) |->
            Constraint("Boundary", BoundaryExpr(sel[i][1], sel[i][2]), "==", 0)]

\* mutant of CohesionExpr: b1 in both lists
CohesionExprSelf(b1, b2, rb) ==
    [k \in {<<p[1], p[2], b1, rb>> : p \in Range(positions)} |-> 0]

\* lpSum([v[x][y][b1][rb] for x,y in positions] + [-v[x][y][b2][rb] for x,y in positions])
CohesionExpr(b1, b2, rb) ==
    [k \in {<<p[1], p[2], b, rb>> : p \in Range(positions), b \in {b1, b2}}
        |-> (IF k[3] = b1 THEN 1 ELSE 0) - (IF k[3] = b2 THEN 1 ELSE 0)]

\* the constraints of the first n pairs: for b1, b2 in pairs: for rb in range(XSIZE)
Cond4(n) ==
    [i \in 1 .. (n * XSIZE) |->
        LET p  == pairs[((i - 1) \div XSIZE) + 1]
            rb == (i - 1) % XSIZE
        IN  Constraint("Cohesion", CohesionExpr(p[1], p[2], rb), "==", 0)]

\* v[x][y][b] raises KeyError for a b that is no key of the dict
Unknown(p) == p[1] \notin Range(bricks) \/ p[2] \notin Range(bricks)

AddCond1 ==
    /\ pc = "cond1"
    /\ m' = [m EXCEPT !.constraints = @ \o Cond1]
    /\ pc' = "cond2"
    /\ UNCHANGED <<XSIZE, YSIZE, bricks, pairs, positions, v, penalties, status, err, y, out>>

AddCond2 ==
    /\ pc = "cond2"
    /\ m' = [m EXCEPT !.constraints = @ \o Cond2]
    /\ pc' = "cond3"
    /\ UNCHANGED <<XSIZE, YSIZE, bricks, pairs, positions, v, penalties, status, err, y, out>>

AddCond3 ==
    /\ pc = "cond3"
    /\ m' = [m EXCEPT !.constraints = @ \o Cond3]
    /\ pc' = "cond4"
    /\ UNCHANGED <<XSIZE, YSIZE, bricks, pairs, positions, v, penalties, status, err, y, out>>

\* the loop over the pairs stops at the first pair that names an unknown brick:
\* the constraints of the pairs before it are already in m
AddCond4 ==
    /\ pc = "cond4"
    /\ LET bad == {i \in DOMAIN pairs : Unknown(pairs[i])}
       IN  IF bad = {}
           THEN /\ m' = [m EXCEPT !.constraints = @ \o Cond4(Len(pairs))]
                /\ err' = err
                /\ pc' = "solve"
           ELSE LET first == CHOOSE i \in bad : \A j \in bad : i <= j
                IN  /\ m' = [m EXCEPT !.constraints = @ \o Cond4(first - 1)]
                    /\ err' = "KeyError"
                    /\ pc' = "error"
    /\ UNCHANGED <<XSIZE, YSIZE, bricks, pairs, positions, v, penalties, status, y, out>>

(***************************************************************************)
(* Step 4: m.solve().  The solver is a black box that returns an optimal   *)
(* assignment of the program m, or reports that there is none.             *)
(***************************************************************************)
Holds(c, a) ==
    LET lhs == ExprValue(c.e, a)
    IN  IF c.sense = "<=" THEN lhs <= c.rhs ELSE lhs = c.rhs

\* a satisfies every constraint of the sequence cs
Satisfies(cs, a) == \A i \in DOMAIN cs : Holds(cs[i], a)

\* c bounds its left-hand side from above and no variable lowers that side:
\* an assignment that exceeds c.rhs cannot be repaired by setting more variables
Monotone(c) == \A k \in DOMAIN c.e : c.e[k] >= 0

\* a exceeds no monotone constraint of cs
WithinBounds(cs, a) ==
    \A i \in DOMAIN cs : Monotone(cs[i]) => ExprValue(cs[i].e, a) <= cs[i].rhs

\* the assignments within bounds that extend one of level by some variables,
\* added to acc
RECURSIVE Grow(_, _, _)
Grow(cs, level, acc) ==
    IF level = {} THEN acc
    ELSE LET next == UNION {{T \cup {k} : k \in {k \in DOMAIN v \ T : WithinBounds(cs, T \cup {k})}}
                              : T \in level}
         IN  Grow(cs, next, acc \cup next)

\* Every 0/1 assignment (given by its ones) that satisfies the constraints cs:
\* the search leaves out only assignments that exceed a monotone constraint.
Solutions(cs) == {a \in Grow(cs, {{}}, {{}}) : Satisfies(cs, a)}

\* the feasible assignments of m
Feasible == Solutions(m.constraints)

\* Values an infeasible solve may leave in the variables: the assignments with
\* at most MaxGarbage ones.
Garbage == SubsetsUpTo(DOMAIN v, MaxGarbage)

\* mutant of Optimal: the objective maximised
OptimalMax(F) ==
    LET objs == {ExprValue(m.objective, a) : a \in F}
        best == CHOOSE o \in objs : \A p \in objs : o >= p
    IN  {a \in F : ExprValue(m.objective, a) = best}

\* those of F with the least objective value
Optimal(F) ==
    LET objs == {ExprValue(m.objective, a) : a \in F}
        best == CHOOSE o \in objs : \A p \in objs : o <= p
    IN  {a \in F : ExprValue(m.objective, a) = best}

\* the variable values of the assignment whose ones are a
ValuesOf(a) == [k \in DOMAIN v |-> IF k \in a THEN 1 ELSE 0]

\* m.solve() when F is the set of feasible assignments found.  PuLP copies the
\* solver's values into the variables whatever the status: for an infeasible
\* program they are values that satisfy nothing in particular.
SolveOver(F) ==
    /\ pc = "solve"
    /\ IF F # {}
       THEN /\ status' = "Optimal"
            /\ \E a \in Optimal(F) : v' = ValuesOf(a)
       ELSE /\ status' = "Infeasible"
            /\ \E a \in Garbage : v' = ValuesOf(a)
    /\ pc' = "display"
    /\ UNCHANGED <<XSIZE, YSIZE, bricks, pairs, positions, penalties, m, err, y, out>>

Solve == SolveOver(Feasible)

(***************************************************************************)
(* Display the result: one printed row per y.  A row is the sequence of    *)
(* the pieces of text appended to it.                                      *)
(***************************************************************************)
RECURSIVE Cat(_, _, _)
Cat(f, i, n) == IF i > n THEN <<>> ELSE f[i] \o Cat(f, i + 1, n)

\* '{}[{}]'.format(b, rb)
Format(b, rb) == <<b, "[", ToString(rb), "]">>

\* for b in bricks: for rb in range(XSIZE): if value(v[x][y][b][rb]) == 1: row += ...
CellText(val, x, yy) ==
    LET n == Len(bricks) * XSIZE
    IN  Cat([j \in 1 .. n |->
                LET b  == bricks[((j - 1) \div XSIZE) + 1]
                    rb == (j - 1) % XSIZE
                IN  IF val[<<x, yy, b, rb>>] = 1 THEN Format(b, rb) ELSE <<>>],
            1, n)

\* mutant of Row: the cells joined by tabs, none after the last
RowJoined(val, yy) ==
    Cat([i \in 1 .. XSIZE |-> CellText(val, i - 1, yy) \o (IF i < XSIZE THEN <<TAB>> ELSE <<>>)],
        1, XSIZE)

\* row = ""; for x in range(XSIZE): ...; row += '\t'
Row(val, yy) == Cat([i \in 1 .. XSIZE |-> CellText(val, i - 1, yy) \o <<TAB>>], 1, XSIZE)

\* one turn of "for y in range(YSIZE)": print(row)
DisplayRow ==
    /\ pc = "display"
    /\ y < YSIZE
    /\ out' = Append(out, Row(v, y))
    /\ y' = y + 1
    /\ pc' = IF y + 1 < YSIZE THEN "display" ELSE "done"
    /\ UNCHANGED <<XSIZE, YSIZE, bricks, pairs, positions, v, penalties, m, status, err>>

Build == BuildPenalties \/ SetObjective \/ AddCond1 \/ AddCond2 \/ AddCond3 \/ AddCond4

Next == Build \/ Solve \/ DisplayRow

Spec == Init /\ [][Next]_vars

(***************************************************************************)
(* Vocabulary of the properties                                            *)
(***************************************************************************)
\* the ones of a valuation of the variables
OnesOf(val) == {k \in DOMAIN val : val[k] = 1}

Distinct(bs) == \A i, j \in DOMAIN bs : bs[i] = bs[j] => i = j

\* the keys of a that place brick b
KeysOfBrick(a, b) == {k \in a : k[3] = b}

\* the cells a occupies
CellsOf(a) == {<<k[1], k[2]>> : k \in a}

\* b has exactly one (x, y, rb) in a
PlacedOnce(a, b) == Cardinality(KeysOfBrick(a, b)) = 1

\* the anchor columns a gives brick b
AnchorsOf(a, b) == {k[4] : k \in KeysOfBrick(a, b)}

\* the columns brick b stands in
ColumnsOf(a, b) == {k[1] : k \in KeysOfBrick(a, b)}

\* the bricks listed in a pair with b
Adjacent(b) ==
    {c \in Range(bricks) : \E i \in DOMAIN pairs : pairs[i] = <<b, c>> \/ pairs[i] = <<c, b>>}

RECURSIVE Reach(_)
Reach(S) ==
    LET N == S \cup UNION {Adjacent(b) : b \in S}
    IN  IF N = S THEN S ELSE Reach(N)

\* the colour group of b: the bricks joined to b by a chain of listed pairs
Group(b) == Reach({b})

\* the problem description is well formed
Valid ==
    /\ Distinct(bricks)
    /\ \A i \in DOMAIN pairs : ~Unknown(pairs[i])
    /\ Len(bricks) <= XSIZE * YSIZE

Solved == pc \in {"display", "done"}

\* the bricks map one-to-one onto Len(bricks) cells
Bijection(a) ==
    /\ \A b \in Range(bricks) : PlacedOnce(a, b)
    /\ \A k1, k2 \in a : (k1[1] = k2[1] /\ k1[2] = k2[2]) => k1 = k2
    /\ Cardinality(CellsOf(a)) = Len(bricks)

(***************************************************************************)
(* C1: when the bricks are distinct and fit the box, every assignment that *)
(* satisfies the Occupancy and Placement constraints (all that m holds     *)
(* once AddCond2 has run) gives each brick exactly one (x, y, rb), puts no *)
(* two bricks in one cell and occupies exactly len(bricks) cells.          *)
(***************************************************************************)
C1_Bijection ==
    (pc = "cond3" /\ Distinct(bricks) /\ Len(bricks) <= XSIZE * YSIZE)
        => \A a \in Solutions(m.constraints) : Bijection(a)

C1_Witness ==
    /\ pc = "cond3"
    /\ Distinct(bricks)
    /\ Len(bricks) >= 3
    /\ XSIZE >= 2
    /\ \E a \in Solutions(m.constraints) : Cardinality(CellsOf(a)) >= 3

(***************************************************************************)
(* C2: in every feasible assignment of the complete program, two bricks    *)
(* joined by a chain of listed pairs have the same single anchor column,   *)
(* whether or not the two are themselves listed as a pair.                 *)
(***************************************************************************)
C2_SameAnchor ==
    pc = "solve"
        => \A a \in Feasible : \A b1 \in Range(bricks) : \A b2 \in Group(b1) :
              /\ AnchorsOf(a, b1) = AnchorsOf(a, b2)
              /\ Cardinality(AnchorsOf(a, b1)) = 1

\* a chain a2 - a1 - a3 whose ends are not listed as a pair, the two ends
\* standing in different columns under one anchor
C2_Witness ==
    /\ pc = "solve"
    /\ pairs = << <<"a1", "a2">>, <<"a1", "a3">> >>
    /\ "a3" \in Group("a2")
    /\ \E a \in Feasible :
          /\ AnchorsOf(a, "a2") = {1} /\ AnchorsOf(a, "a3") = {1}
          /\ ColumnsOf(a, "a2") # ColumnsOf(a, "a3")

(***************************************************************************)
(* C3: in every feasible assignment, and so in the one the solver returns, *)
(* no variable v[x][y][brick][rb] with x > rb is 1.                        *)
(***************************************************************************)
C3_LeftOfAnchor ==
    /\ pc = "solve" => \A a \in Feasible : \A k \in a : k[1] <= k[4]
    /\ (Solved /\ status = "Optimal") => \A k \in OnesOf(v) : k[1] <= k[4]

C3_Witness ==
    /\ Solved
    /\ status = "Optimal"
    /\ \E k \in OnesOf(v) : k[1] < k[4]

(***************************************************************************)
(* C7: for a well-formed description the complete program is feasible:     *)
(* building does not fail and the solve does not end Infeasible.           *)
(***************************************************************************)
C7_Feasible ==
    Valid => /\ pc # "error"
             /\ Solved => status = "Optimal"

\* a full box of two columns whose two bricks are one colour group
C7_Witness ==
    /\ Valid
    /\ Solved
    /\ status = "Optimal"
    /\ Len(pairs) >= 1
    /\ Len(bricks) = XSIZE * YSIZE
    /\ XSIZE >= 2

\* the matrix the notebook records for XSIZE = 4
RecordedPenalties ==
    [p \in PyRange(4) \X PyRange(4) |->
        << <<0, 10, 20, 30>>, <<10, 0, 10, 20>>, <<20, 10, 0, 10>>, <<30, 20, 10, 0>> >>
            [p[1] + 1][p[2] + 1]]

(***************************************************************************)
(* C8: once built, the penalty matrix has an entry for every (x, rb) of    *)
(* range(XSIZE) x range(XSIZE); the entry is ten times the distance of x   *)
(* and rb, is symmetric, is zero exactly on the diagonal and is never      *)
(* negative.                                                               *)
(***************************************************************************)
C8_Penalties ==
    pc # "penalties" =>
        /\ DOMAIN penalties = PyRange(XSIZE) \X PyRange(XSIZE)
        /\ \A x, rb \in PyRange(XSIZE) :
              /\ penalties[<<x, rb>>] = (IF rb >= x THEN 10 * (rb - x) ELSE 10 * (x - rb))
              /\ penalties[<<x, rb>>] = penalties[<<rb, x>>]
              /\ (penalties[<<x, rb>>] = 0) <=> (x = rb)
              /\ penalties[<<x, rb>>] >= 0
              /\ <<x, rb>> \in DOMAIN RecordedPenalties
                    => penalties[<<x, rb>>] = RecordedPenalties[<<x, rb>>]

C8_Witness ==
    /\ pc = "objective"
    /\ XSIZE >= 2
    /\ penalties[<<1, 0>>] = 10
    /\ penalties[<<0, 1>>] = 10

(***************************************************************************)
(* Reading a printed row back: its cells are the pieces between the tabs.  *)
(***************************************************************************)
Tabs(row) == {i \in DOMAIN row : row[i] = TAB}

\* the index of the j-th tab of row
TabPos(row, j) == CHOOSE i \in Tabs(row) : Cardinality({t \in Tabs(row) : t <= i}) = j

\* the text of the j-th cell of row
CellAt(row, j) ==
    SubSeq(row, IF j = 1 THEN 1 ELSE TabPos(row, j - 1) + 1, TabPos(row, j) - 1)

\* what the cell (x, yy) should show under the valuation val
Expected(val, x, yy) ==
    LET S == {k \in OnesOf(val) : k[1] = x /\ k[2] = yy}
    IN  IF S = {} THEN <<>>
        ELSE LET k == CHOOSE k \in S : TRUE
             IN  <<k[3], "[", ToString(k[4]), "]">>

\* how often the brick b is named in the rows
Mentions(rows, b) ==
    Cardinality(UNION {{<<i, j>> : j \in {j \in DOMAIN rows[i] : rows[i][j] = b}}
                          : i \in DOMAIN rows})

RowsOK(val, rows) ==
    /\ Len(rows) = YSIZE
    /\ \A yy \in PyRange(YSIZE) :
          LET row == rows[yy + 1]
          IN  /\ Len(row) > 0
              /\ row[Len(row)] = TAB
              /\ Cardinality(Tabs(row)) = XSIZE
              /\ \A x \in PyRange(XSIZE) : CellAt(row, x + 1) = Expected(val, x, yy)
    /\ \A b \in Range(bricks) : Mentions(rows, b) = 1
    /\ Cardinality({<<x, yy>> \in PyRange(XSIZE) \X PyRange(YSIZE) :
                       CellAt(rows[yy + 1], x + 1) # <<>>}) = Len(bricks)

(***************************************************************************)
(* C9: the display loop prints one row per y, in ascending y, and stops    *)
(* after YSIZE rows; for every feasible assignment (the returned one       *)
(* included) each row holds XSIZE tab-terminated cells in ascending x, a   *)
(* cell shows '<brick>[<rb>]' for the one variable that is 1 there and is  *)
(* empty otherwise, every brick is shown exactly once and exactly          *)
(* len(bricks) cells are not empty.                                        *)
(***************************************************************************)
C9_Display ==
    /\ pc = "display" => (y < YSIZE /\ Len(out) = y /\ ENABLED DisplayRow)
    /\ pc = "done" => (y = YSIZE /\ Len(out) = YSIZE)
    /\ (pc = "done" /\ status = "Optimal") => RowsOK(v, out)
    /\ pc = "solve" =>
          \A a \in Feasible :
              RowsOK(ValuesOf(a), [i \in 1 .. YSIZE |-> Row(ValuesOf(a), i - 1)])

\* a finished display of a box with an empty cell and two rows
C9_Witness ==
    /\ pc = "done"
    /\ status = "Optimal"
    /\ YSIZE >= 2
    /\ XSIZE >= 2
    /\ Len(bricks) = 3
    /\ \E i \in DOMAIN out : \E j \in 1 .. XSIZE : CellAt(out[i], j) = <<>>

(***************************************************************************)
(* C10: in every assignment the solver returns as optimal, the anchor      *)
(* column of each colour group (a lone brick included) is the rightmost    *)
(* column in which a brick of the group stands.                            *)
(***************************************************************************)
Rightmost(a, G) ==
    LET cols == UNION {ColumnsOf(a, b) : b \in G}
    IN  CHOOSE c \in cols : \A d \in cols : d <= c

C10_AnchorIsRightmost ==
    (Solved /\ status = "Optimal")
        => \A b \in Range(bricks) : AnchorsOf(OnesOf(v), b) = {Rightmost(OnesOf(v), Group(b))}

\* an optimum in which a brick of a group stands left of the group's anchor
C10_Witness ==
    /\ Solved
    /\ status = "Optimal"
    /\ \E k \in OnesOf(v) : k[1] < k[4] /\ Cardinality(Group(k[3])) >= 2

(***************************************************************************)
(* C5: for a malformed description (a brick listed twice, a pair naming an *)
(* unknown brick, more bricks than cells) building ends in an InvalidModel *)
(* error and the solver is never called.                                   *)
(***************************************************************************)
C5_InvalidModel ==
    ~Valid => /\ status = "Not Solved"
              /\ pc \notin {"solve", "display", "done"}
              /\ pc = "error" => err = "InvalidModel"

(***************************************************************************)
(* C6: a cell in which more than one variable is 1 is never printed with   *)
(* several bricks: the display fails with InconsistentSolution and the     *)
(* cell gets no placement.                                                 *)
(***************************************************************************)
C6_InconsistentSolution ==
    \A i \in DOMAIN out : \A x \in PyRange(XSIZE) :
        Cardinality({k \in OnesOf(v) : k[1] = x /\ k[2] = i - 1}) > 1
            => /\ err = "InconsistentSolution"
               /\ CellAt(out[i], x + 1) = <<>>

(***************************************************************************)
(* The notebook's own run: a 4 x 3 box, the twelve bricks and eleven       *)
(* pairs.  Its program has 576 variables, so the solver is modelled over   *)
(* the recorded solution and the assignments near it: one brick given      *)
(* another cell or anchor, or the cells of two bricks exchanged, once or   *)
(* twice.  The best of these cost 10, the least any assignment can: cost 0 *)
(* would put c1..c4, which share an anchor, in one column of three cells.  *)
(***************************************************************************)
ScenarioXSIZE == 4
ScenarioYSIZE == 3

\* the rows the notebook records as printed
RecordedRows ==
    << <<"b2", "[", "0", "]", TAB, "a3", "[", "1", "]", TAB,
         "d1", "[", "2", "]", TAB, "c1", "[", "3", "]", TAB>>,
       <<"e1", "[", "0", "]", TAB, "a1", "[", "1", "]", TAB,
         "d2", "[", "2", "]", TAB, "c2", "[", "3", "]", TAB>>,
       <<"b1", "[", "0", "]", TAB, "a2", "[", "1", "]", TAB,
         "c3", "[", "3", "]", TAB, "c4", "[", "3", "]", TAB>> >>

\* the assignment those rows show
Recorded ==
    { <<0, 0, "b2", 0>>, <<1, 0, "a3", 1>>, <<2, 0, "d1", 2>>, <<3, 0, "c1", 3>>,
      <<0, 1, "e1", 0>>, <<1, 1, "a1", 1>>, <<2, 1, "d2", 2>>, <<3, 1, "c2", 3>>,
      <<0, 2, "b1", 0>>, <<1, 2, "a2", 1>>, <<2, 2, "c3", 3>>, <<3, 2, "c4", 3>> }

\* a with one brick given any cell and anchor
Moved(a) == {(a \ {k}) \cup {k2} : <<k, k2>> \in {p \in a \X DOMAIN v : p[1][3] = p[2][3]}}

\* a with the cells of two of its bricks exchanged
Swapped(a) ==
    {(a \ {p[1], p[2]}) \cup {<<p[2][1], p[2][2], p[1][3], p[1][4]>>,
                              <<p[1][1], p[1][2], p[2][3], p[2][4]>>} : p \in a \X a}

Near == Moved(Recorded) \cup UNION {Swapped(a) : a \in Swapped(Recorded)}

InitScenario == Built(ScenarioXSIZE, ScenarioYSIZE, BRICKS, PAIRS)

SolveScenario == SolveOver({a \in Near : Satisfies(m.constraints, a)})

NextScenario == Build \/ SolveScenario \/ DisplayRow

SpecScenario == InitScenario /\ [][NextScenario]_vars

====
